---- MODULE Spec2Model ----
(***************************************************************************)
(* Model of scripts/app.js: the live search of the FAQ / contact page.     *)
(*                                                                         *)
(* The file holds three blocks:                                            *)
(*   lines   1-273  the filter handler on #q (highlight disabled), the     *)
(*                  mutation observer, the load/toc/accordion listeners;   *)
(*   lines 275-663  setupSearch: the debounced pass that marks matches     *)
(*                  with <mark class="search-hit"> and opens <details>;    *)
(*   lines 665-900  an earlier revision of the first block, whose          *)
(*                  highlight() inserts <mark class="__hl">.               *)
(* The page model (Spec) runs the first two blocks together, as the page   *)
(* does; the string and text-node functions of all three blocks are        *)
(* operators, exercised on drawn inputs by SpecFn.                         *)
(*                                                                         *)
(* Text is a sequence of one-character strings.  "e'" and "E'" stand for   *)
(* the precomposed letters e-acute and E-acute, "'" for the combining      *)
(* acute accent U+0301.                                                    *)
(***************************************************************************)
EXTENDS Integers, Sequences, FiniteSets, TLC

VARIABLES
  doc,             \* the page as authored: the units it holds, and whether its
                   \* section.card elements lie inside another <section>
  phase,           \* "off" | "loading" (before DOMContentLoaded) | "ready"
  value,           \* q.value
  shown,           \* unit -> style.display # 'none'
  open,            \* <details> -> the open attribute
  tagged,          \* <details> -> data-opened-by-search="1"
  openedBySearch,  \* the Set of setupSearch
  dom,             \* text-bearing element -> its text nodes
  toggleQ,         \* <details> with a queued toggle event, oldest first
  obs,             \* the mutation observer holds records: its callback is due
  timerB,          \* the debounce timer of onInput is pending
  flash,           \* elements carrying the class hit-flash
  flashT,          \* elements with a pending timer that removes hit-flash
  notice,          \* #empty-state
  live,            \* #search-live-region
  events,          \* input events and clicks so far
  error,           \* the exception the script threw while it ran, "" for none
  detached,        \* units removed from the document after the page was loaded
  tocT,            \* the timer of the .toc click listener is pending
  g,               \* history: who opened what (read by the properties only)
  fn               \* SpecFn: a text function, its input and its result

pageVars == <<doc, phase, value, shown, open, tagged, openedBySearch, dom, toggleQ,
              obs, timerB, flash, flashT, notice, live, events, error, detached,
              tocT, g>>

vars == <<pageVars, fn>>

----------------------------------------------------------------------------
(* Characters                                                              *)

Min(S) == CHOOSE x \in S : \A y \in S : x <= y
Max(S) == CHOOSE x \in S : \A y \in S : x >= y

\* U+0300..U+036f, the class the code strips after NFD
Combining == {"'"}

AsciiUpper == {"A", "C", "D", "E", "I", "J", "S", "T"}

AsciiLower == {"a", "c", "d", "e", "g", "h", "i", "j", "l", "n", "o",
               "p", "r", "s", "t", "y", "z"}

AsciiLetter == AsciiUpper \cup AsciiLower

\* \s of the regular expressions and of String.prototype.trim
isSpace(c) == c = " "

\* String.prototype.toLowerCase, one character
toLowerCh(c) ==
  CASE c = "A" -> "a" [] c = "C" -> "c" [] c = "D" -> "d" [] c = "E" -> "e"
    [] c = "I" -> "i" [] c = "J" -> "j" [] c = "S" -> "s" [] c = "T" -> "t"
    [] c = "E'" -> "e'"
    [] OTHER -> c

toLowerCase(s) == [i \in DOMAIN s |-> toLowerCh(s[i])]

\* s.normalize('NFD'): a precomposed letter becomes base letter + combining mark
nfd(c) ==
  CASE c = "e'" -> <<"e", "'">>
    [] c = "E'" -> <<"E", "'">>
    [] OTHER -> <<c>>

RECURSIVE normalizeNFD(_)
normalizeNFD(s) == IF s = <<>> THEN <<>> ELSE nfd(Head(s)) \o normalizeNFD(Tail(s))

isNotCombining(c) == c \notin Combining

\* s.normalize('NFD').replace(/[\\u0300-\\u036f]/g, '')
stripDiacritics(s) == SelectSeq(normalizeNFD(s), isNotCombining)

\* String.prototype.trim
trim(s) ==
  LET keep == {i \in DOMAIN s : ~isSpace(s[i])}
  IN  IF keep = {} THEN <<>> ELSE SubSeq(s, Min(keep), Max(keep))

\* String.prototype.includes
includes(text, term) ==
  \E i \in 0..(Len(text) - Len(term)) : SubSeq(text, i + 1, i + Len(term)) = term

\* String.prototype.indexOf, 1-based; 0 when absent
indexOf(text, term) ==
  LET at == {i \in 1..(Len(text) - Len(term) + 1) : SubSeq(text, i, i + Len(term) - 1) = term}
  IN  IF at = {} THEN 0 ELSE Min(at)

\* normalize(str): NFD, strip the combining marks, lower case
normalize(str) == toLowerCase(stripDiacritics(str))

\* the term the input handler derives from the field, line 98
termOf(v) == toLowerCase(trim(v))

\* the query the debounced pass derives from the field, lines 471 and 480
queryOf(v) == normalize(trim(v))

----------------------------------------------------------------------------
(* Text nodes.  The children of a text-bearing element are a sequence of   *)
(* segments, one per text node, in document order: t is the node's text,   *)
(* cls the class of the <mark> it lies in ("" for a plain text node), n    *)
(* the number of <mark class="search-hit"> elements around it.             *)

Plain(t) == [t |-> t, cls |-> "", n |-> 0]

TextNode(t) == IF t = <<>> THEN <<>> ELSE <<Plain(t)>>

RECURSIVE textContent(_)
textContent(segs) ==
  IF segs = <<>> THEN <<>> ELSE Head(segs).t \o textContent(Tail(segs))

hasMark(segs, cls) == \E i \in DOMAIN segs : segs[i].cls = cls

RECURSIVE mergeText(_)
\* Node.normalize(): adjacent text nodes become one
mergeText(segs) ==
  IF Len(segs) < 2 THEN segs
  ELSE IF segs[1].cls = "" /\ segs[2].cls = ""
       THEN mergeText(<<Plain(segs[1].t \o segs[2].t)>> \o SubSeq(segs, 3, Len(segs)))
       ELSE <<segs[1]>> \o mergeText(Tail(segs))

----------------------------------------------------------------------------
(* The markup highlightInElement writes into the string it hands to        *)
(* innerHTML.  The string is a sequence of tokens: the characters of the   *)
(* node's text, unescaped, and the two tags as single tokens.              *)

MarkOpen == "<mark class=\"search-hit\">"
MarkClose == "</mark>"

\* a character of the pattern against a character of the text, flag i
reEq(x, p) == toLowerCh(x) = toLowerCh(p)

\* the characters with a meaning of their own in a pattern
Meta == {".", "*", "+", "?", "^", "$", "{", "}", "(", ")", "|", "[", "]", "\\"}

escapeRegExp_none(s) == s

RECURSIVE escapeRegExp(_)
\* s.replace(/[.*+?^${}()|[\]\\]/g, '\\$&'), lines 28 and 567
escapeRegExp(s) ==
  IF s = <<>> THEN <<>>
  ELSE (IF Head(s) \in Meta THEN <<"\\", Head(s)>> ELSE <<Head(s)>>)
         \o escapeRegExp(Tail(s))

RECURSIVE RegExp(_)
\* new RegExp(source, 'gi'): the pattern as a sequence of atoms, each of which
\* matches one character.  An escaped character and an ordinary one match
\* themselves, '.' matches any character; another metacharacter left
\* unescaped is no literal: a quantifier, a group, an assertion or a syntax
\* error (kind "op")
RegExp(source) ==
  IF source = <<>> THEN <<>>
  ELSE IF Head(source) = "\\" /\ Len(source) >= 2
       THEN <<[kind |-> "lit", c |-> source[2]]>> \o RegExp(SubSeq(source, 3, Len(source)))
  ELSE IF Head(source) = "."
       THEN <<[kind |-> "any", c |-> "."]>> \o RegExp(Tail(source))
  ELSE IF Head(source) \in Meta
       THEN <<[kind |-> "op", c |-> Head(source)]>> \o RegExp(Tail(source))
  ELSE <<[kind |-> "lit", c |-> Head(source)]>> \o RegExp(Tail(source))

\* the pattern is a sequence of literals and wildcards
isLiteralPattern(pat) == \A k \in DOMAIN pat : pat[k].kind # "op"

matchAt(text, pat, i) ==
  /\ pat # <<>>
  /\ isLiteralPattern(pat)
  /\ i + Len(pat) - 1 <= Len(text)
  /\ \A k \in 1..Len(pat) :
        pat[k].kind = "any" \/ reEq(text[i + k - 1], pat[k].c)

\* accentInsensitiveRegex, lines 562-571: every character of the query, stripped
\* of diacritics and escaped, so that it matches itself
accentInsensitiveRegex(normalizedQuery) ==
  RegExp(escapeRegExp(stripDiacritics(normalizedQuery)))

RECURSIVE replaceFrom(_, _, _)
\* text.replace(accentInsensitiveRegex, match => `<mark class="search-hit">${match}</mark>`)
\* from position i on: leftmost matches, not overlapping (flag g)
replaceFrom(text, pat, i) ==
  IF i > Len(text) THEN <<>>
  ELSE IF matchAt(text, pat, i)
       THEN <<MarkOpen>> \o SubSeq(text, i, i + Len(pat) - 1) \o <<MarkClose>>
              \o replaceFrom(text, pat, i + Len(pat))
       ELSE <<text[i]>> \o replaceFrom(text, pat, i + 1)

\* a token that holds the character '>' and so ends a tag the text opened
endsTag(tok) == tok \in {MarkOpen, MarkClose}

appendChar(out, fresh, c, depth) ==
  LET cls == IF depth > 0 THEN "search-hit" ELSE ""
  IN  IF ~fresh /\ out # <<>>
      THEN [out EXCEPT ![Len(out)].t = @ \o <<c>>]
      ELSE Append(out, [t |-> <<c>>, cls |-> cls, n |-> depth])

RECURSIVE parseFrom(_, _, _, _, _)
\* span.innerHTML = replaced: the HTML fragment parser on the tokens from
\* position i, depth <mark> elements open, out the text nodes so far, fresh
\* when the next character starts a new text node.  The text holds no
\* '>', '/', '=', quote or '!', so a '<' before a letter opens a start tag
\* that runs to the next '>' (the end of a mark tag) or, if there is none,
\* to the end of input, where the unfinished tag is dropped; "&lt" is the
\* character reference of '<'.  Elements other than <mark> are not kept:
\* their text nodes are.
parseFrom(h, i, depth, out, fresh) ==
  IF i > Len(h) THEN out
  ELSE LET c == h[i] IN
    IF c = MarkOpen THEN parseFrom(h, i + 1, depth + 1, out, TRUE)
    ELSE IF c = MarkClose
      THEN parseFrom(h, i + 1, IF depth > 0 THEN depth - 1 ELSE 0, out, TRUE)
    ELSE IF c = "<" /\ i < Len(h) /\ h[i + 1] \in AsciiLetter
      THEN LET ends == {j \in (i + 1)..Len(h) : endsTag(h[j])}
           IN  IF ends = {} THEN out
               ELSE parseFrom(h, Min(ends) + 1, depth, out, TRUE)
    ELSE IF c = "&" /\ i + 2 <= Len(h) /\ h[i + 1] = "l" /\ h[i + 2] = "t"
      THEN LET semi == i + 3 <= Len(h) /\ h[i + 3] = ";"
           IN  parseFrom(h, IF semi THEN i + 4 ELSE i + 3, depth,
                         appendChar(out, fresh, "<", depth), FALSE)
    ELSE parseFrom(h, i + 1, depth, appendChar(out, fresh, c, depth), FALSE)

innerHTML(replaced) == parseFrom(replaced, 1, 0, <<>>, TRUE)

\* acceptNode, lines 547-555
acceptNode(seg) == trim(seg.t) # <<>> /\ seg.cls # "search-hit"

\* the body of textNodes.forEach, lines 573-588, on one text node: the
\* nodes that stand in its place, and whether the replace callback ran
highlightNode(seg, normalizedQuery) ==
  LET text           == seg.t
      normalizedText == stripDiacritics(text)
      replaced       == replaceFrom(text, accentInsensitiveRegex(normalizedQuery), 1)
  IN  IF ~includes(toLowerCase(normalizedText), normalizedQuery)
      THEN [segs |-> <<seg>>, hit |-> FALSE]
      ELSE IF replaced # text
           THEN [segs |-> innerHTML(replaced), hit |-> TRUE]
           ELSE [segs |-> <<seg>>, hit |-> FALSE]

RECURSIVE highlightNodes(_, _)
highlightNodes(segs, normalizedQuery) ==
  IF segs = <<>> THEN [segs |-> <<>>, hit |-> FALSE]
  ELSE LET first == IF acceptNode(Head(segs))
                    THEN highlightNode(Head(segs), normalizedQuery)
                    ELSE [segs |-> <<Head(segs)>>, hit |-> FALSE]
           rest  == highlightNodes(Tail(segs), normalizedQuery)
       IN  [segs |-> first.segs \o rest.segs, hit |-> first.hit \/ rest.hit]

\* highlightInElement(root, normalizedQuery), lines 542-591, on the text nodes
\* of root: the nodes after the call and the value returned
highlightInElement(segs, normalizedQuery) ==
  IF normalizedQuery = <<>> THEN [segs |-> segs, hit |-> FALSE]
  ELSE highlightNodes(segs, normalizedQuery)

\* clearHighlights(), lines 609-617, on the children of one element
clearHighlights(segs) ==
  IF ~hasMark(segs, "search-hit") THEN segs
  ELSE mergeText([i \in DOMAIN segs |->
                    IF segs[i].cls = "search-hit" THEN Plain(segs[i].t) ELSE segs[i]])

----------------------------------------------------------------------------
(* The first block and its earlier revision                                *)

\* matches(el, term), lines 13-16, on el.textContent
matches(text, term) ==
  IF term = <<>> THEN TRUE ELSE includes(toLowerCase(text), term)

\* \w of the regular expressions
isWordCh(c) == c \in AsciiLetter

\* \b at the gap before position i (1..Len+1) of text
wordBoundary(text, i) ==
  LET before == i > 1 /\ isWordCh(text[i - 1])
      after  == i <= Len(text) /\ isWordCh(text[i])
  IN  before # after

\* buildSearchRegex(term).test(text), lines 41-46: no caller in the file
buildSearchRegex(term, text) ==
  LET safe      == RegExp(escapeRegExp(term))
      wholeWord == Len(term) >= 3 /\ \A k \in DOMAIN term : ~isSpace(term[k])
  IN  \E i \in 1..(Len(text) - Len(safe) + 1) :
        /\ matchAt(text, safe, i)
        /\ wholeWord => wordBoundary(text, i) /\ wordBoundary(text, i + Len(safe))

\* unmark(el), lines 19-22 and 679-682
unmark(segs) ==
  [i \in DOMAIN segs |-> IF segs[i].cls = "__hl" THEN Plain(segs[i].t) ELSE segs[i]]

\* highlight(el, term), lines 52-56: marking is switched off
highlight(segs, term) == unmark(segs)

highlightFirst(seg, term) ==
  LET t == seg.t
      i == indexOf(toLowerCase(t), term)
  IN  IF i > 0 /\ trim(t) # <<>>
      THEN TextNode(SubSeq(t, 1, i - 1))
             \o <<[t |-> SubSeq(t, i, i + Len(term) - 1), cls |-> "__hl", n |-> 0]>>
             \o TextNode(SubSeq(t, i + Len(term), Len(t)))
      ELSE <<seg>>

RECURSIVE highlightParts(_, _)
highlightParts(segs, term) ==
  IF segs = <<>> THEN <<>>
  ELSE highlightFirst(Head(segs), term) \o highlightParts(Tail(segs), term)

\* highlight(el, term) of the earlier revision, lines 688-722
highlight_hl(segs, term) ==
  IF term = <<>> THEN unmark(segs) ELSE highlightParts(unmark(segs), term)

----------------------------------------------------------------------------
(* The page.  Two section.card elements, each with an <h2>, and five       *)
(* units in document order:                                                *)
(*   1  <details class="faq faq-item"> in section 1, with a .content       *)
(*   2  <details class="faq faq-item" data-initial="open"> in section 1,   *)
(*      its text directly in the <details>                                 *)
(*   3  <details class="faq"> in section 2 (no filterable class)           *)
(*   4  a .chip in section 2                                               *)
(*   5  a .contact outside every section                                   *)
(* The text of unit 2 holds a '<' before a letter; no other text holds     *)
(* '<' or '&'.                                                             *)

Units == 1..5
Sections == 1..2

\* the input events and clicks of one visit
MaxEvents == 3

Unit ==
  << [tag |-> "DETAILS", cls |-> {"faq", "faq-item"}, sec |-> 1,
      summary |-> <<"C","a","t">>, body |-> <<"a"," ","c","a","t">>,
      content |-> TRUE, initial |-> ""],
     [tag |-> "DETAILS", cls |-> {"faq", "faq-item"}, sec |-> 1,
      summary |-> <<"D","o","g">>, body |-> <<"d","<","g">>,
      content |-> FALSE, initial |-> "open"],
     [tag |-> "DETAILS", cls |-> {"faq"}, sec |-> 2,
      summary |-> <<"T","i","p">>, body |-> <<"s","h","i","p">>,
      content |-> TRUE, initial |-> ""],
     [tag |-> "SPAN", cls |-> {"chip"}, sec |-> 2,
      summary |-> <<>>, body |-> <<"c","a","t">>,
      content |-> FALSE, initial |-> ""],
     [tag |-> "DIV", cls |-> {"contact"}, sec |-> 0,
      summary |-> <<>>, body |-> <<"J","o","s","e'">>,
      content |-> FALSE, initial |-> ""] >>

H2 == [s \in Sections |-> IF s = 1 THEN <<"S","h","i","p">> ELSE <<"I","n","f","o">>]

\* the <details> that carry the open attribute in the markup
AuthoredOpen == {2, 3}

\* the pages: the units each holds, whether its section.card elements lie in
\* another <section>, whether it holds the field #q and the form .search
Docs ==
  { [units |-> {1, 2, 3, 4, 5}, nested |-> TRUE, q |-> TRUE, form |-> TRUE],
    [units |-> {4}, nested |-> TRUE, q |-> TRUE, form |-> TRUE],
    [units |-> {1, 5}, nested |-> FALSE, q |-> TRUE, form |-> TRUE],
    [units |-> {1, 2, 5}, nested |-> TRUE, q |-> FALSE, form |-> TRUE],
    [units |-> {1, 2, 5}, nested |-> TRUE, q |-> FALSE, form |-> FALSE] }

\* what the visitor types
Values ==
  { <<>>, <<"c","a">>, <<"C","a","t"," ">>, <<"s","h","i","p">>,
    <<"i","n","f","o">>, <<"j","o","s">>, <<"d","<","g">>, <<"i">> }

Nodes == {<<"h2", s>> : s \in Sections}
           \cup {<<"summary", u>> : u \in Units} \cup {<<"body", u>> : u \in Units}

\* the selectors, on the units of the markup
DetailsUnits == {u \in Units : Unit[u].tag = "DETAILS"}
FaqUnits == {u \in DetailsUnits : "faq" \in Unit[u].cls}
ItemUnits == {u \in Units : Unit[u].cls \cap {"faq-item", "contact", "chip"} # {}}
ChipUnits == {u \in Units : "chip" \in Unit[u].cls}
SectionUnits == [s \in Sections |-> {u \in Units : Unit[u].sec = s}]

Present == doc.units \ detached
\* document.querySelectorAll('details')
AllDetails == Present \cap DetailsUnits
\* document.querySelectorAll('details.faq')
Faqs == Present \cap FaqUnits
\* items(), line 9
items == Present \cap ItemUnits
\* el.classList.contains('chip'), line 128
isChip(u) == u \in ChipUnits
\* el.closest('section.card'); 0 when there is none
closestSection(u) == Unit[u].sec
InSection(s) == Present \cap SectionUnits[s]

\* a set of units as the sequence of its members in document order
RECURSIVE InOrder(_)
InOrder(S) == IF S = {} THEN <<>> ELSE <<Min(S)>> \o InOrder(S \ {Min(S)})

\* el.textContent of a unit in a given tree
unitTextIn(d, u) == textContent(d[<<"summary", u>>]) \o textContent(d[<<"body", u>>])
unitText(u) == unitTextIn(dom, u)
headingText(s) == textContent(dom[<<"h2", s>>])

\* one task queues the toggle event of each <details> whose open attribute it
\* added or removed; a newer change of the same element replaces the queued event
RECURSIVE enqueue(_, _)
enqueue(queue, ds) ==
  IF ds = <<>> THEN queue
  ELSE enqueue(Append(SelectSeq(queue, LAMBDA x : x # Head(ds)), Head(ds)), Tail(ds))

EmptyText == "No se encuentran resultados para la busqueda."

----------------------------------------------------------------------------
(* The input listener of the first block, lines 97-197                     *)

\* step (1): sectionMatchMap.get(sec)
sectionMatchMap(s, term) ==
  term # <<>> /\ includes(toLowerCase(headingText(s)), term)

showSelf(u, term) == IF term # <<>> THEN matches(unitText(u), term) ELSE TRUE

showBySection_never(u, term) == FALSE

showBySection(u, term) ==
  IF closestSection(u) # 0 THEN sectionMatchMap(closestSection(u), term) ELSE FALSE

show(u, term) == showSelf(u, term) \/ showBySection(u, term)

\* step (2): the units the loop displays and counts (a chip returns before
\* the count, line 131)
counted_chips(term) == {u \in items : show(u, term)}

counted(term) == {u \in items : ~isChip(u) /\ show(u, term)}

\* the units with style.display = '' after the loop, among those it visits
displayed(cnt) == cnt \cup (items \cap ChipUnits)

visibleCount(cnt) == Cardinality(cnt)

\* hits after step (2)
hitsOfItems(cnt) == InOrder(cnt)

\* the <details> step (2) sets open, line 151
openedBySection(term, cnt) ==
  InOrder({u \in cnt : showBySection(u, term) /\ Unit[u].tag = "DETAILS"})

\* step (3): the first <details class="faq"> of the first matched section
firstDetails(term, cnt) ==
  LET secs == {s \in Sections : sectionMatchMap(s, term)}
  IN  IF term # <<>> /\ hitsOfItems(cnt) = <<>> /\ secs # {}
           /\ InSection(Min(secs)) \cap Faqs # {}
      THEN <<Min(InSection(Min(secs)) \cap Faqs)>>
      ELSE <<>>

hits(term, cnt) == hitsOfItems(cnt) \o firstDetails(term, cnt)

flashTarget_self(term, cnt) ==
  LET found == hits(term, cnt)
  IN  IF term # <<>> /\ found # <<>> THEN {<<"unit", found[1]>>} ELSE {}

\* step (4): the element that gets hit-flash
flashTarget(term, cnt) ==
  LET found == hits(term, cnt)
  IN  IF term # <<>> /\ found # <<>>
      THEN IF closestSection(found[1]) # 0
           THEN {<<"section", closestSection(found[1])>>}
           ELSE {<<"unit", found[1]>>}
      ELSE {}

\* step (5), always creating the element
emptyState_fresh(cnt) ==
  [exists  |-> TRUE,
   count   |-> notice.count + 1,
   text    |-> IF visibleCount(cnt) # 0 THEN "" ELSE EmptyText,
   display |-> IF visibleCount(cnt) # 0 THEN "none" ELSE "block"]

\* step (5): the element is created when getElementById finds none
emptyState(cnt) ==
  [exists  |-> TRUE,
   count   |-> IF notice.exists THEN notice.count ELSE notice.count + 1,
   text    |-> IF visibleCount(cnt) # 0 THEN "" ELSE EmptyText,
   display |-> IF visibleCount(cnt) # 0 THEN "none" ELSE "block"]

\* unmark(h2) / highlight(h2), highlight(el) / unmark(el): every heading and
\* every item loses its mark.__hl
unmarkedDom ==
  [n \in Nodes |->
     IF n[1] = "h2" \/ n[2] \in items THEN highlight(dom[n], <<>>) ELSE dom[n]]

\* a unit qualifies for what the visitor typed: by its own text or by the
\* heading of its section, for either pass
qualifies(u, v) ==
  /\ termOf(v) # <<>>
  /\ \/ show(u, termOf(v))
     \/ includes(normalize(unitText(u)), queryOf(v))

stillClosed(ds) == SelectSeq(ds, LAMBDA d : ~open[d])

\* the listener, lines 97-197, on the value v: what it leaves
inputHandler(v) ==
  LET term    == termOf(v)
      cnt     == counted(term)
      disp    == displayed(cnt)
      opening == openedBySection(term, cnt) \o firstDetails(term, cnt)
      opened  == {opening[i] : i \in DOMAIN opening}
      target  == flashTarget(term, cnt)
      empty   == emptyState(cnt)
  IN  [shown   |-> [u \in Units |-> IF u \in items THEN u \in disp ELSE shown[u]],
       open    |-> [u \in Units |-> open[u] \/ u \in opened],
       toggleQ |-> enqueue(toggleQ, stillClosed(opening)),
       dom     |-> unmarkedDom,
       target  |-> target,
       notice  |-> empty,
       \* the attribute changes the observer is told of: style, open
       obs     |-> \/ \E u \in items : shown[u] # (u \in disp)
                   \/ opening # <<>>
                   \/ (IF notice.exists THEN notice.display ELSE "none") # empty.display,
       newOpen |-> {d \in opened : ~open[d]}]

Input(v) ==
  /\ phase = "ready" /\ ~obs
  \* the listener is added under if (q), line 96
  /\ doc.q
  /\ events < MaxEvents
  /\ events' = events + 1
  /\ v # value
  /\ value' = v
  /\ \E r \in {inputHandler(v)} :
         /\ shown' = r.shown
         /\ open' = r.open
         /\ toggleQ' = r.toggleQ
         /\ dom' = r.dom
         /\ flash' = flash \cup r.target
         /\ flashT' = flashT \cup r.target
         /\ notice' = r.notice
         /\ obs' = r.obs
         /\ g' = [g EXCEPT !.searched = TRUE,
                           !.userSince = FALSE,
                           !.engOpened = r.newOpen,
                           !.searchOpened = @ \cup r.newOpen,
                           !.manual = {d \in @ : ~qualifies(d, v)},
                           !.toc = FALSE]
  \* the debounced listener of setupSearch, line 498: debounce, lines 638-644
  /\ timerB' = TRUE
  /\ UNCHANGED <<doc, phase, tagged, openedBySearch, live, fn, error, detached, tocT>>

----------------------------------------------------------------------------
(* The mutation observer, lines 65-84                                      *)

observerOpens_unguarded ==
  LET visible == {d \in Faqs : shown[d]}
  IN  IF termOf(value) # <<>> /\ visible # {} THEN <<Min(visible)>> ELSE <<>>

observerOpens ==
  LET term == termOf(value)
      visible == {d \in Faqs : shown[d]}
  IN  IF term # <<>> /\ ~(\E d \in Faqs : open[d]) /\ visible # {}
      THEN <<Min(visible)>> ELSE <<>>

Observer ==
  /\ phase = "ready" /\ obs
  /\ LET first == observerOpens
         newOpen == {first[i] : i \in DOMAIN first}
     IN  /\ open' = [u \in Units |-> open[u] \/ u \in newOpen]
         /\ toggleQ' = enqueue(toggleQ, first)
         /\ obs' = (first # <<>>)
         /\ g' = [g EXCEPT !.engOpened = @ \cup newOpen, !.searchOpened = @ \cup newOpen]
  /\ UNCHANGED <<events, doc, phase, value, shown, tagged, openedBySearch, dom, timerB,
                 flash, flashT, notice, live, fn, error, detached, tocT>>

----------------------------------------------------------------------------
(* The accordion: the toggle listener, lines 262-273                       *)

accordionCloses_none(d) == <<>>

accordionCloses(d) ==
  IF d \in Faqs /\ open[d] /\ closestSection(d) # 0
  THEN InOrder({o \in Faqs \cap InSection(closestSection(d)) : open[o] /\ o # d})
  ELSE <<>>

Toggle ==
  /\ phase = "ready" /\ ~obs
  /\ toggleQ # <<>>
  /\ LET d == Head(toggleQ)
         closing == accordionCloses(d)
     IN  /\ open' = [u \in Units |-> open[u] /\ ~(\E i \in DOMAIN closing : closing[i] = u)]
         /\ toggleQ' = enqueue(Tail(toggleQ), closing)
         /\ obs' = (closing # <<>>)
         /\ g' = [g EXCEPT !.userOpen = {o \in @ : \A i \in DOMAIN closing : closing[i] # o}]
  /\ UNCHANGED <<events, doc, phase, value, shown, tagged, openedBySearch, dom, timerB,
                 flash, flashT, notice, live, fn, error, detached, tocT>>

----------------------------------------------------------------------------
(* setupSearch: the debounced pass onInput, lines 470-496                  *)

MinQueryLength == 3

\* clearHighlights() on the whole document: querySelectorAll finds the marks
\* of the units that are attached
clearedDom ==
  [n \in Nodes |->
     IF n[1] # "h2" /\ n[2] \in detached THEN dom[n] ELSE clearHighlights(dom[n])]

\* closeSearchOpenedDetails(openedBySearch), lines 620-627: the <details> it
\* closes, in the order of the Set
closeSearchOpenedDetails_detached == InOrder({d \in openedBySearch : tagged[d]})

closeSearchOpenedDetails ==
  InOrder({d \in openedBySearch : d \in Present /\ tagged[d]})

\* document.querySelectorAll('section .card'): the section.card elements,
\* when they lie inside another <section>
cards == IF doc.nested THEN Sections ELSE {}

\* card.querySelectorAll('details')
detailsList(card) == InSection(card) \cap AllDetails

\* the first call on the card's title, line 505
titleHit(card, query) == highlightInElement(clearedDom[<<"h2", card>>], query)

\* the call on a <summary>, line 512
summaryHit(det, query) == highlightInElement(clearedDom[<<"summary", det>>], query)

\* the call on det.querySelector('.content') || det, lines 514-515: the
\* text nodes of the summary and of the rest of the <details> after it
contentHit(det, query) ==
  LET body == highlightInElement(clearedDom[<<"body", det>>], query)
      again == highlightInElement(summaryHit(det, query).segs, query)
  IN  IF Unit[det].content
      THEN [summary |-> summaryHit(det, query).segs, body |-> body.segs, hit |-> body.hit]
      ELSE [summary |-> again.segs, body |-> body.segs, hit |-> again.hit \/ body.hit]

detailsMatch(det, query) == summaryHit(det, query).hit \/ contentHit(det, query).hit

\* the call on card.querySelector('.card-body') || card, lines 527-532, made
\* when the card holds no <details>: every text node of the card
bodyHit(card, query, n) ==
  IF n[1] = "h2" THEN highlightInElement(titleHit(card, query).segs, query)
  ELSE highlightInElement(clearedDom[n], query)

cardNodes(card) ==
  {<<"h2", card>>} \cup {<<"summary", u>> : u \in InSection(card)}
     \cup {<<"body", u>> : u \in InSection(card)}

\* searchAndHighlightInCard(card, query, openedBySearch), lines 501-535: its result
searchAndHighlightInCard(card, query) ==
  \/ titleHit(card, query).hit
  \/ \E det \in detailsList(card) : detailsMatch(det, query)
  \/ detailsList(card) = {} /\ \E n \in cardNodes(card) : bodyHit(card, query, n).hit

\* the text nodes the pass leaves in element n
highlightedDom(query, n) ==
  LET card == IF n[1] = "h2" THEN n[2] ELSE Unit[n[2]].sec
  IN  IF card \notin cards \/ (n[1] # "h2" /\ n[2] \notin Present) THEN clearedDom[n]
      ELSE IF detailsList(card) = {} THEN bodyHit(card, query, n).segs
      ELSE IF n[1] = "h2" THEN titleHit(card, query).segs
      ELSE IF n[2] \notin AllDetails THEN clearedDom[n]
      ELSE IF n[1] = "summary" THEN contentHit(n[2], query).summary
      ELSE contentHit(n[2], query).body

\* always the plural
liveText_plural(results) ==
  [text |-> IF results = 0 THEN "Sin resultados."
            ELSE ToString(results) \o " resultados.",
   n |-> results,
   count |-> live.count]

\* liveRegion.textContent, lines 492-494
liveText(results) ==
  [text |-> IF results = 0 THEN "Sin resultados."
            ELSE ToString(results) \o " "
                   \o (IF results = 1 THEN "resultado" ELSE "resultados") \o ".",
   n |-> results,
   count |-> live.count]

\* the branch of a query under three characters, lines 472-478
onInputShort ==
  LET closing == closeSearchOpenedDetails
      closed  == {closing[i] : i \in DOMAIN closing}
  IN  [dom     |-> clearedDom,
       open    |-> [u \in Units |-> open[u] /\ u \notin closed],
       tagged  |-> [u \in Units |-> tagged[u] /\ u \notin closed],
       openedBySearch |-> openedBySearch,
       toggleQ |-> enqueue(toggleQ, SelectSeq(closing, LAMBDA d : open[d])),
       obs     |-> \E d \in closed : open[d],
       live    |-> [text |-> "", n |-> 0, count |-> live.count],
       newOpen |-> {}]

\* the search proper, lines 480-495
onInputSearch ==
  LET query   == queryOf(value)
      closing == closeSearchOpenedDetails
      closed  == {closing[i] : i \in DOMAIN closing}
      \* lines 517-522: a matching <details> that is not open
      opening == InOrder({det \in AllDetails :
                            /\ Unit[det].sec \in cards
                            /\ detailsMatch(det, query)
                            /\ ~(open[det] /\ det \notin closed)})
      opened  == {opening[i] : i \in DOMAIN opening}
      results == Cardinality({card \in cards : searchAndHighlightInCard(card, query)})
  IN  [dom     |-> [n \in Nodes |-> highlightedDom(query, n)],
       open    |-> [u \in Units |-> (open[u] /\ u \notin closed) \/ u \in opened],
       tagged  |-> [u \in Units |-> (tagged[u] /\ u \notin closed) \/ u \in opened],
       openedBySearch |-> opened,
       toggleQ |-> enqueue(toggleQ, SelectSeq(closing, LAMBDA d : open[d]) \o opening),
       obs     |-> (\E d \in closed : open[d]) \/ opening # <<>>,
       live    |-> liveText(results),
       newOpen |-> opened]

onInput ==
  IF Len(trim(value)) < MinQueryLength THEN onInputShort ELSE onInputSearch

\* the timer of debounce fires, lines 642 and 470-496
TimerB ==
  /\ phase = "ready" /\ ~obs
  /\ timerB
  /\ timerB' = FALSE
  /\ \E r \in {onInput} :
         /\ dom' = r.dom
         /\ open' = r.open
         /\ tagged' = r.tagged
         /\ openedBySearch' = r.openedBySearch
         /\ toggleQ' = r.toggleQ
         /\ obs' = r.obs
         /\ live' = r.live
         /\ g' = [g EXCEPT !.engOpened = @ \cup r.newOpen,
                           !.searchOpened = @ \cup r.newOpen,
                           !.userOpen = {d \in @ : r.open[d]},
                           !.toc = FALSE]
  /\ UNCHANGED <<events, doc, phase, value, shown, flash, flashT, notice, fn, error, detached, tocT>>

----------------------------------------------------------------------------
(* The rest of the page                                                    *)

\* setTimeout(() => card.classList.remove('hit-flash'), 1200), line 178
FlashTimer(e) ==
  /\ phase = "ready" /\ ~obs
  /\ e \in flashT
  /\ flashT' = flashT \ {e}
  /\ flash' = flash \ {e}
  /\ UNCHANGED <<events, doc, phase, value, shown, open, tagged, openedBySearch, dom,
                 toggleQ, obs, timerB, notice, live, g, fn, error, detached, tocT>>

\* the visitor opens or closes a <details> that is displayed
UserToggle(d) ==
  /\ phase = "ready" /\ ~obs
  /\ events < MaxEvents
  /\ events' = events + 1
  /\ d \in AllDetails /\ shown[d]
  /\ open' = [open EXCEPT ![d] = ~open[d]]
  /\ toggleQ' = enqueue(toggleQ, <<d>>)
  /\ obs' = TRUE
  /\ g' = [g EXCEPT !.userSince = TRUE,
                    !.searchOpened = @ \ {d},
                    \* open now, and opened by the visitor's click
                    !.userOpen = IF open[d] THEN @ \ {d} ELSE @ \cup {d},
                    !.toc = FALSE,
                    \* opened by the visitor before any search, and not
                    \* closed since by the visitor's own clicks
                    !.manual = IF open[d] THEN @ \ {d}
                               ELSE (IF ~g.searched THEN @ \cup {d} ELSE @)
                                      \ {o \in Faqs : d \in Faqs /\ o # d
                                            /\ closestSection(d) # 0
                                            /\ closestSection(o) = closestSection(d)}]
  /\ UNCHANGED <<doc, phase, value, shown, tagged, openedBySearch, dom, timerB,
                 flash, flashT, notice, live, fn, error, detached, tocT>>

\* createLiveRegion(), lines 647-663: the element getElementById finds, or a
\* new one
createLiveRegion(region) ==
  IF region.count > 0 THEN region
  ELSE [text |-> "", n |-> 0, count |-> region.count + 1]

\* the click listener on .toc a, lines 252-259: setTimeout(..., 0)
TocClick ==
  /\ phase = "ready" /\ ~obs
  /\ events < MaxEvents
  /\ events' = events + 1
  /\ tocT' = TRUE
  /\ UNCHANGED <<doc, phase, value, shown, open, tagged, openedBySearch, dom, toggleQ,
                 obs, timerB, flash, flashT, notice, live, error, detached, g, fn>>

\* the <details> the timer of the click closes, lines 256-258
tocCloses == InOrder({d \in Faqs : open[d]})

\* the timer of the click fires
TocTimer ==
  /\ phase = "ready" /\ ~obs
  /\ tocT
  /\ tocT' = FALSE
  /\ LET closing == tocCloses
     IN  /\ open' = [u \in Units |-> open[u] /\ ~(\E i \in DOMAIN closing : closing[i] = u)]
         /\ toggleQ' = enqueue(toggleQ, closing)
         /\ obs' = (closing # <<>>)
         /\ g' = [g EXCEPT !.userOpen = {o \in @ : \A i \in DOMAIN closing : closing[i] # o},
                           !.toc = TRUE]
  /\ UNCHANGED <<events, doc, phase, value, shown, tagged, openedBySearch, dom, timerB,
                 flash, flashT, notice, live, error, detached, fn>>

\* the units another script may remove from the document
MaxDetached == 1

\* something else on the page removes a <details> the last pass recorded in
\* openedBySearch; the Set keeps the element
Detach(d) ==
  /\ phase = "ready" /\ ~obs
  /\ events < MaxEvents
  /\ events' = events + 1
  /\ Cardinality(detached) < MaxDetached
  /\ d \in openedBySearch \cap Present
  /\ detached' = detached \cup {d}
  /\ UNCHANGED <<doc, phase, value, shown, open, tagged, openedBySearch, dom, toggleQ,
                 obs, timerB, flash, flashT, notice, live, error, tocT, g, fn>>

\* collapseAllDetailsOnLoad, lines 448-455: the <details> it leaves alone
keptOnLoad(d) == Unit[d].initial = "open"

\* the two DOMContentLoaded listeners, lines 247-249 and 285-309
Load ==
  /\ phase = "loading"
  /\ phase' = "ready"
  /\ LET closing == InOrder({d \in AllDetails : open[d] /\ (d \in Faqs \/ ~keptOnLoad(d))})
     IN  /\ open' = [u \in Units |-> open[u] /\ ~(\E i \in DOMAIN closing : closing[i] = u)]
         /\ toggleQ' = enqueue(toggleQ, closing)
         /\ obs' = (closing # <<>>)
  \* setupSearch, lines 464-467
  /\ live' = IF doc.q THEN createLiveRegion(live) ELSE live
  /\ UNCHANGED <<events, doc, value, shown, tagged, openedBySearch, dom, timerB, flash,
                 flashT, notice, g, fn, error, detached, tocT>>

FnOff == [pc |-> "off", text |-> <<>>, query |-> <<>>, node |-> <<>>,
          hit |-> FALSE, m |-> FALSE]

authoredDom ==
  [n \in Nodes |->
     IF n[1] = "h2" THEN TextNode(H2[n[2]])
     ELSE IF n[1] = "summary" THEN TextNode(Unit[n[2]].summary)
     ELSE TextNode(Unit[n[2]].body)]

\* document.querySelector('.search').addEventListener(...), line 312, at the
\* top level of the script: the exception it ends with
scriptError == IF doc.form THEN "" ELSE "TypeError"

\* the page when the script has run and DOMContentLoaded has not fired
Init ==
  /\ doc \in Docs
  /\ phase = "loading"
  /\ value = <<>>
  /\ shown = [u \in Units |-> TRUE]
  /\ open = [u \in Units |-> u \in AuthoredOpen \cap doc.units]
  /\ tagged = [u \in Units |-> FALSE]
  /\ openedBySearch = {}
  /\ dom = authoredDom
  /\ toggleQ = <<>>
  /\ obs = FALSE
  /\ timerB = FALSE
  /\ flash = {}
  /\ flashT = {}
  /\ notice = [exists |-> FALSE, count |-> 0, text |-> "", display |-> "none"]
  /\ live = [text |-> "absent", n |-> 0, count |-> 0]
  /\ events = 0
  /\ error = scriptError
  /\ detached = {}
  /\ tocT = FALSE
  /\ g = [searched |-> FALSE, userSince |-> FALSE, engOpened |-> {},
          searchOpened |-> {}, manual |-> {}, userOpen |-> {}, toc |-> FALSE]
  /\ fn = FnOff

Next ==
  \/ Load
  \/ \E v \in Values : Input(v)
  \/ Observer
  \/ Toggle
  \/ TimerB
  \/ \E e \in flashT : FlashTimer(e)
  \/ \E d \in Units : UserToggle(d)
  \/ \E d \in Units : Detach(d)
  \/ TocClick
  \/ TocTimer

Spec == Init /\ [][Next]_vars

----------------------------------------------------------------------------
(* SpecFn: the text functions on drawn inputs                              *)

MaxLen == 3

FnAlphabet == {"a", "t", " ", "<", "&", "e'", "."}

RECURSIVE SeqsUpTo(_, _)
SeqsUpTo(S, k) ==
  IF k = 0 THEN {<<>>}
  ELSE LET shorter == SeqsUpTo(S, k - 1)
       IN  shorter \cup {Append(s, c) : s \in {x \in shorter : Len(x) = k - 1}, c \in S}

FnSampleTexts ==
  { <<"c","a","t","e","g","o","r","y">>,
    <<"t","h","e"," ","c","a","t"," ","s","a","t">>,
    <<"J","o","s","e'">>,
    <<"J","o","s","e","'">>,
    <<"C","a","t"," ","c","A","T">>,
    <<"a"," ","<","c","a","t">>,
    <<"c","a","t","<","a">>,
    <<"&","l","t","a","t">>,
    <<"a","&","t"," ","c","a","t">>,
    <<"a","(","t",")">>,
    <<"d","<","g"," ","d","<","g">> }

FnTexts == SeqsUpTo(FnAlphabet, MaxLen) \cup FnSampleTexts

FnQueries ==
  { <<>>, <<"t">>, <<"a","t">>, <<"c","a">>, <<"c","a","t">>, <<"C","A","T">>,
    <<"j","o","s","e">>, <<"J","o","s","e'">>, <<"<","a">>, <<" ","a","t"," ">>,
    <<"a"," ","t">>, <<"a",".">>, <<"a",".","t">>, <<"a","(","t">>,
    <<"d","<","g">> }

PageOff ==
  /\ doc = [units |-> {}, nested |-> FALSE, q |-> FALSE, form |-> FALSE]
  /\ phase = "off"
  /\ value = <<>>
  /\ shown = [u \in Units |-> TRUE]
  /\ open = [u \in Units |-> FALSE]
  /\ tagged = [u \in Units |-> FALSE]
  /\ openedBySearch = {}
  /\ dom = [n \in Nodes |-> <<>>]
  /\ toggleQ = <<>>
  /\ obs = FALSE
  /\ timerB = FALSE
  /\ flash = {}
  /\ flashT = {}
  /\ notice = [exists |-> FALSE, count |-> 0, text |-> "", display |-> "none"]
  /\ live = [text |-> "absent", n |-> 0, count |-> 0]
  /\ events = 0
  /\ error = ""
  /\ detached = {}
  /\ tocT = FALSE
  /\ g = [searched |-> FALSE, userSince |-> FALSE, engOpened |-> {},
          searchOpened |-> {}, manual |-> {}, userOpen |-> {}, toc |-> FALSE]

FnInit ==
  /\ PageOff
  /\ fn \in { [pc |-> "init", text |-> t, query |-> q, node |-> TextNode(t),
            hit |-> FALSE, m |-> FALSE] : t \in FnTexts, q \in FnQueries }

FnHighlight ==
  /\ fn.pc = "init"
  /\ LET r == highlightInElement(fn.node, queryOf(fn.query))
     IN  fn' = [fn EXCEPT !.pc = "highlighted", !.node = r.segs, !.hit = r.hit]
  /\ UNCHANGED pageVars

FnClear ==
  /\ fn.pc = "highlighted"
  /\ fn' = [fn EXCEPT !.pc = "cleared", !.node = clearHighlights(fn.node)]
  /\ UNCHANGED pageVars

FnHighlightHl ==
  /\ fn.pc = "init"
  /\ fn' = [fn EXCEPT !.pc = "hl", !.node = highlight_hl(fn.node, termOf(fn.query))]
  /\ UNCHANGED pageVars

FnUnmark ==
  /\ fn.pc = "hl"
  /\ fn' = [fn EXCEPT !.pc = "unmarked", !.node = unmark(fn.node)]
  /\ UNCHANGED pageVars

FnMatch ==
  /\ fn.pc = "init"
  /\ fn' = [fn EXCEPT !.pc = "matched", !.m = matches(fn.text, termOf(fn.query))]
  /\ UNCHANGED pageVars

FnNext == FnHighlight \/ FnClear \/ FnHighlightHl \/ FnUnmark \/ FnMatch

SpecFn == FnInit /\ [][FnNext]_vars

----------------------------------------------------------------------------
(* Properties of the text functions, under SpecFn                          *)

\* the text holds none of the characters that start markup
NoMarkup(text) == \A i \in DOMAIN text : text[i] \notin {"<", "&"}

\* the raw query selects whole-word mode
WholeWordQuery(raw) == Len(raw) >= 3 /\ \A k \in DOMAIN raw : ~isSpace(raw[k])

\* term occurs in text between two characters that are not word characters
OccursAsWord(text, term) ==
  \E i \in 1..(Len(text) - Len(term) + 1) :
     /\ \A k \in 1..Len(term) : toLowerCh(text[i + k - 1]) = toLowerCh(term[k])
     /\ i = 1 \/ ~isWordCh(text[i - 1])
     /\ i + Len(term) > Len(text) \/ ~isWordCh(text[i + Len(term)])

\* C1: highlighting a unit with any query and clearing it at once leaves the
\* unit's text content character for character what it was, also when the
\* text holds '<' or '&' or accents
C1_RoundTrip ==
  /\ fn.pc = "cleared" => textContent(fn.node) = fn.text
  /\ fn.pc = "unmarked" => textContent(fn.node) = fn.text

\* C8: a raw query of three or more characters without whitespace matches,
\* and is highlighted, only where it occurs between non-word characters;
\* a shorter or multi-word query matches as a plain substring
C8_WholeWord ==
  /\ fn.pc = "matched" =>
       (fn.m <=> IF WholeWordQuery(fn.query)
                 THEN OccursAsWord(fn.text, fn.query)
                 ELSE includes(toLowerCase(fn.text), termOf(fn.query)))
  /\ (fn.pc = "highlighted" /\ WholeWordQuery(fn.query) /\ NoMarkup(fn.text)) =>
       (hasMark(fn.node, "search-hit")
          => OccursAsWord(stripDiacritics(fn.text), queryOf(fn.query)))

\* C9: when the normalized query occurs in the normalized text of a node, the
\* highlight returns true and leaves a marker, the marker's text is the
\* original substring (case and accents kept) and the rest of the text is
\* unchanged
C9_AccentInsensitiveMarker ==
  (/\ fn.pc = "highlighted"
   /\ NoMarkup(fn.text)
   /\ queryOf(fn.query) # <<>>
   /\ includes(normalize(fn.text), queryOf(fn.query)))
  => /\ fn.hit
     /\ hasMark(fn.node, "search-hit")
     /\ textContent(fn.node) = fn.text
     /\ \A i \in DOMAIN fn.node :
           fn.node[i].cls = "search-hit" => normalize(fn.node[i].t) = queryOf(fn.query)

----------------------------------------------------------------------------
(* Properties of the page, under Spec                                      *)

\* nothing is pending: no toggle event, no observer callback, no debounce timer
quiet == phase = "ready" /\ toggleQ = <<>> /\ ~obs /\ ~timerB

\* term occurs in text, letter case aside
Occurs(text, term) ==
  \E i \in 1..(Len(text) - Len(term) + 1) :
     \A k \in 1..Len(term) : toLowerCh(text[i + k - 1]) = term[k]

NoMarker == \A n \in Nodes : \A i \in DOMAIN dom[n] : dom[n][i].cls = ""

\* C2: a collapsible unit the engine opened (it was closed before) is closed
\* again and carries no opened-by-search tag once the query is cleared or no
\* longer matches it, whichever way the engine opened it
C2_SearchOpenedClosedAgain ==
  quiet => \A d \in g.searchOpened :
              qualifies(d, value) \/ (~open[d] /\ ~tagged[d])

\* C3: a collapsible unit the visitor opened before any search is open after
\* a query that does not match it has been typed and cleared
C3_ManualStaysOpen ==
  (quiet /\ g.searched /\ termOf(value) = <<>>) => \A d \in g.manual : open[d]

\* C4: the pass for a non-empty query leaves a filterable unit that is no
\* chip shown exactly when its own text holds the query or the heading of
\* its section does
C4_ShownIffSelfOrSection ==
  [][(value' # value /\ termOf(value') # <<>>) =>
        \A u \in items \ ChipUnits :
           shown'[u] <=> \/ Occurs(unitTextIn(dom', u), termOf(value'))
                         \/ /\ closestSection(u) # 0
                            /\ Occurs(textContent(dom'[<<"h2", closestSection(u)>>]),
                                      termOf(value'))]_vars

\* a unit whose own text does not hold the query is shown by its section's
\* heading, while a unit outside every section is hidden
C4_Witness ==
  /\ phase = "ready" /\ g.searched
  /\ termOf(value) = <<"s","h","i","p">>
  /\ {2, 5} \subseteq Present
  /\ shown[2] /\ ~Occurs(unitText(2), termOf(value))
  /\ ~shown[5]

\* C5: once a query that matches a section's heading has been evaluated and
\* every toggle event handled, every <details> of that section is open
C5_SectionMatchOpensAll ==
  (quiet /\ g.searched /\ ~g.userSince) =>
     \A s \in Sections :
        Occurs(headingText(s), termOf(value)) /\ termOf(value) # <<>>
           => \A d \in AllDetails \cap InSection(s) : open[d]

C7_ClearedRestoresAll ==
  (quiet /\ g.searched /\ trim(value) = <<>>) =>
     /\ \A u \in Present : shown[u]
     /\ NoMarker
     /\ notice.display = "none"

\* C10: after a query of fewer than three characters has been evaluated no
\* unit is hidden, no marker is present and the engine has opened no <details>
C10_ShortQueryIsEmpty ==
  (quiet /\ g.searched /\ Len(trim(value)) < MinQueryLength) =>
     /\ \A u \in Present : shown[u]
     /\ NoMarker
     /\ g.engOpened = {}

\* the texts of the markers in the document
MarkerTexts ==
  UNION { {dom[n][i].t : i \in {j \in DOMAIN dom[n] : dom[n][j].cls # ""}} : n \in Nodes }

\* C11: in every state every marker wraps an occurrence of the
\* current value of the field, normalized, and none exists when that value
\* is empty
C11_MarkersOfCurrentQuery ==
  phase = "ready" =>
     /\ \A t \in MarkerTexts : normalize(t) = queryOf(value)
     /\ queryOf(value) = <<>> => MarkerTexts = {}

\* the open <details class="faq"> of a section
OpenFaqsIn(s) == {d \in Faqs \cap InSection(s) : open[d]}

\* the step that handles one toggle event
ToggleStep ==
  /\ phase = "ready" /\ ~obs /\ toggleQ # <<>>
  /\ events' = events /\ timerB' = timerB /\ flashT' = flashT /\ tocT' = tocT
  /\ toggleQ' # toggleQ

\* what is left to handle: shrinks with every toggle event handled
ToggleMeasure(queue, op) == Len(queue) + 2 * Cardinality({u \in Units : op[u]})

\* C12: with every toggle event handled a section holds at most one open
\* <details class="faq">
C12_OneOpenWhenHandled ==
  (phase = "ready" /\ toggleQ = <<>> /\ ~obs) =>
     \A s \in Sections : Cardinality(OpenFaqsIn(s)) <= 1

\* C12: single-open-per-section.  With every toggle event handled a section
\* holds at most one open <details class="faq">; handling the toggle event of
\* an opened unit closes its open siblings, closes nothing in another section
\* and opens nothing; and each event handled leaves less to handle, so the
\* cascade ends
C12_SingleOpenPerSection ==
  /\ []C12_OneOpenWhenHandled
  /\ [][ToggleStep =>
          LET d == Head(toggleQ) IN
          /\ \A u \in Units :
                (open[u] /\ ~open'[u]) =>
                   /\ u \in Faqs /\ u # d /\ open[d] /\ d \in Faqs
                   /\ closestSection(d) # 0
                   /\ closestSection(u) = closestSection(d)
          /\ \A u \in Units : open'[u] => open[u]
          /\ (d \in Faqs /\ open[d] /\ closestSection(d) # 0)
                => {o \in Faqs \cap InSection(closestSection(d)) : open'[o]} = {d}
          /\ ToggleMeasure(toggleQ', open') < ToggleMeasure(toggleQ, open)]_vars

\* the pass opened two units of section 1 and, the events handled, one is open
C12_Witness ==
  /\ quiet
  /\ {1, 2} \subseteq g.engOpened
  /\ Cardinality(OpenFaqsIn(1)) = 1

\* C13: no pass runs at the input event itself: the step in which the field
\* changes leaves the shown flags, the open flags, the notice and the
\* markers as they were, the pass being left to the debounce timer
C13_NoPassPerKeystroke ==
  [][value' # value =>
        /\ shown' = shown
        /\ open' = open
        /\ notice' = notice
        /\ dom' = dom]_vars

\* C14: once the load handlers have run, and before anything else happens,
\* a <details> is open exactly when it carries data-initial="open" and was
\* authored open
C14_ClosedAfterLoad ==
  (phase = "ready" /\ events = 0) =>
     \A d \in AllDetails :
        open[d] <=> (Unit[d].initial = "open" /\ d \in AuthoredOpen)

\* C15: after every pass, whatever the query, every chip is shown and holds
\* no marker
C15_ChipsShownUnmarked ==
  (phase = "ready" /\ g.searched) =>
     \A u \in items \cap ChipUnits :
        /\ shown[u]
        /\ \A i \in DOMAIN dom[<<"body", u>>] : dom[<<"body", u>>][i].cls = ""
        /\ \A i \in DOMAIN dom[<<"summary", u>>] : dom[<<"summary", u>>][i].cls = ""

\* C16: a query with metacharacters is matched literally.  The pattern built
\* from it holds no operator, so that building it cannot fail; the matcher
\* finds the query exactly where the text holds its characters; and every
\* marker holds the characters of the query
C16_MetacharactersLiteral ==
  /\ fn.pc \in {"highlighted", "cleared"} =>
        isLiteralPattern(accentInsensitiveRegex(queryOf(fn.query)))
  /\ fn.pc = "matched" =>
        (fn.m <=> \E i \in 0..(Len(fn.text) - Len(termOf(fn.query))) :
                     \A k \in 1..Len(termOf(fn.query)) :
                        toLowerCh(fn.text[i + k]) = termOf(fn.query)[k])
  /\ (fn.pc = "highlighted" /\ NoMarkup(fn.text)) =>
        /\ fn.hit => includes(normalize(fn.text), queryOf(fn.query))
        /\ \A i \in DOMAIN fn.node :
              fn.node[i].cls = "search-hit" => toLowerCase(fn.node[i].t) = queryOf(fn.query)

\* the query "a.t" is marked in a text that holds "a.t"
C16_Witness ==
  /\ fn.pc = "highlighted" /\ fn.hit
  /\ fn.query = <<"a", ".", "t">>
  /\ fn.text = <<"a", ".", "t">>
  /\ \E i \in DOMAIN fn.node : fn.node[i].cls = "search-hit" /\ fn.node[i].t = fn.text

\* C17: a second run of the pass with the same non-empty query, on the
\* document as the passes for that query left it, leaves the shown flags and
\* the notice as the first run left them
C17_SecondRunSame ==
  (quiet /\ g.searched /\ termOf(value) # <<>>) =>
     /\ inputHandler(value).shown = shown
     /\ inputHandler(value).notice = notice

\* the step that runs the callback of the mutation observer: with records
\* pending nothing else runs before it
ObserverStep == phase = "ready" /\ obs

\* C18: the callback of the observer changes nothing but the open flag of
\* one <details class="faq">, and that only when the field holds a query and
\* no <details class="faq"> is open; the callback that follows an opening
\* finds a unit open and changes nothing, and a callback that changes
\* nothing leaves no record behind; the filtering pass is never run again
C18_ObserverQuiesces ==
  [][ObserverStep =>
        /\ value' = value /\ shown' = shown /\ notice' = notice /\ dom' = dom
        /\ timerB' = timerB /\ tagged' = tagged /\ events' = events
        /\ \A u \in Units : open[u] => open'[u]
        /\ open' # open =>
              /\ termOf(value) # <<>>
              /\ ~(\E d \in Faqs : open[d])
              /\ Cardinality({u \in Faqs : open'[u]}) = 1
              /\ obs'
        /\ open' = open => ~obs']_vars

\* the observer has opened unit 1 for the query "ca", which no heading holds
\* and the debounced pass ignores; its second callback is due
C18_Witness ==
  /\ phase = "ready" /\ obs
  /\ termOf(value) = <<"c", "a">>
  /\ open[1] /\ 1 \in g.engOpened

\* C19: when the heading of a section holds the query and no unit of the
\* section holds it in its own text, the pass opens the first <details> of
\* the section and counts it among the hits, whatever the other sections
\* produced
C19_HintPerMatchedSection ==
  [][(value' # value /\ termOf(value') # <<>>) =>
        LET term  == termOf(value')
            found == hits(term, counted(term))
        IN  \A s \in Sections :
               (/\ Occurs(headingText(s), term)
                /\ \A u \in items \cap InSection(s) : ~Occurs(unitText(u), term)
                /\ InSection(s) \cap Faqs # {})
               => /\ open'[Min(InSection(s) \cap Faqs)]
                  /\ \E i \in DOMAIN found : found[i] = Min(InSection(s) \cap Faqs)]_vars

\* the first unit the pass left shown and counted, in document order
FirstShown == Min({u \in items \ ChipUnits : shown'[u]})

\* C20: a pass for a non-empty query that produced a hit puts hit-flash on
\* the section that encloses the first hit, or on the hit itself when no
\* section encloses it; an element carries hit-flash only while a timer that
\* removes it is pending, so none does once every timer has fired
C20_FlashOnSectionTransient ==
  /\ [](flash \subseteq flashT)
  /\ [][(value' # value /\ termOf(value') # <<>>) =>
          LET term   == termOf(value')
              direct == {u \in items \ ChipUnits : shown'[u]}
              secs   == {s \in Sections : /\ Occurs(headingText(s), term)
                                          /\ InSection(s) \cap Faqs # {}}
          IN  /\ direct # {} =>
                   IF closestSection(FirstShown) # 0
                   THEN <<"section", closestSection(FirstShown)>> \in flash'
                   ELSE <<"unit", FirstShown>> \in flash'
              /\ (direct = {} /\ \E s \in Sections : Occurs(headingText(s), term)) =>
                   (Min({s \in Sections : Occurs(headingText(s), term)}) \in secs
                      => <<"section", Min(secs)>> \in flash')
              /\ flash' \ flash \subseteq
                   {<<"section", s>> : s \in Sections} \cup
                   {<<"unit", u>> : u \in {x \in direct : closestSection(x) = 0}}]_vars

\* the first hit of a pass is a unit outside every section and is the only
\* element that carries hit-flash
C20_Witness ==
  /\ phase = "ready" /\ 5 \in Present
  /\ termOf(value) = <<"j","o","s">>
  /\ flash = {<<"unit", 5>>}

\* C21: the document holds at most one #empty-state and at most one
\* #search-live-region, whatever passes have run, and one more pass or one
\* more call of createLiveRegion adds none
C21_OneNoticeOneRegion ==
  /\ notice.count <= 1
  /\ live.count <= 1
  /\ phase = "ready" =>
       /\ inputHandler(value).notice.count <= 1
       /\ createLiveRegion(live).count <= 1
       /\ createLiveRegion(createLiveRegion(live)).count <= 1

\* two passes have run, the second on a document that held the notice, and
\* the live region exists
C21_Witness ==
  /\ phase = "ready" /\ events >= 2 /\ g.searched
  /\ notice.exists /\ notice.count = 1 /\ live.count = 1
  /\ notice.display = "block"

\* the debounced pass runs on a query of three characters or more
SearchStep == phase = "ready" /\ ~obs /\ timerB /\ ~timerB'
                /\ Len(trim(value)) >= MinQueryLength

\* a text node of element n holds the query, accents and letter case aside
NodeHolds(n, query) ==
  \E i \in DOMAIN dom[n] :
     trim(dom[n][i].t) # <<>> /\ includes(normalize(dom[n][i].t), query)

\* the cards in which the pass looks and finds the query: in the title, in
\* a <details>, or anywhere in a card without <details>
MatchedCards(query) ==
  {card \in cards :
     \/ NodeHolds(<<"h2", card>>, query)
     \/ \E det \in detailsList(card) :
           NodeHolds(<<"summary", det>>, query) \/ NodeHolds(<<"body", det>>, query)
     \/ detailsList(card) = {} /\ \E n \in cardNodes(card) : NodeHolds(n, query)}

C22_WitnessPlural ==
  /\ phase = "ready" /\ ~timerB /\ live.text = "2 resultados."

\* C23: on a page without the field #q or without the form .search the
\* script throws nothing, and the search leaves the page as authored: no
\* notice and no live region are created, every unit is displayed, untagged
\* and unmarked, and nothing flashes
C23_AbsentIsNoOp ==
  (~doc.q \/ ~doc.form) =>
     /\ error = ""
     /\ notice.count = 0 /\ live.count = 0
     /\ \A u \in Units : shown[u] /\ ~tagged[u]
     /\ dom = authoredDom
     /\ flash = {}

\* C24: no step changes the open attribute, the tag or the text nodes of a
\* <details> that has been removed from the document: the reconciliation
\* and the clearing of the debounced pass skip it
C24_DetachedUntouched ==
  [][\A d \in detached :
        /\ open'[d] = open[d]
        /\ tagged'[d] = tagged[d]
        /\ dom'[<<"summary", d>>] = dom[<<"summary", d>>]
        /\ dom'[<<"body", d>>] = dom[<<"body", d>>]]_vars

\* the pass for a short query has run after a <details> the search had
\* opened, tagged and marked was removed: it is still open, tagged and marked
C24_Witness ==
  /\ phase = "ready" /\ ~timerB /\ Len(trim(value)) < MinQueryLength
  /\ \E d \in detached :
        /\ open[d] /\ tagged[d] /\ d \in openedBySearch
        /\ hasMark(dom[<<"body", d>>], "search-hit")

----------------------------------------------------------------------------
(* Markers, under SpecFn                                                   *)

\* C25: after highlightInElement no text lies in a marker that lies in
\* another marker: every marked text is wrapped by exactly one
\* <mark class="search-hit">
C25_NoNestedMarker ==
  fn.pc = "highlighted" => \A i \in DOMAIN fn.node : fn.node[i].n <= 1

----------------------------------------------------------------------------
(* The table of contents and the tag, under Spec                           *)

\* C26: once the timer of a click on a .toc link has fired and the observer
\* and toggle reactions to it are over, and nothing else has happened
\* since, no <details class="faq"> is open, with or without a query in the
\* field
C26_TocClosesAllFaqs ==
  (g.toc /\ phase = "ready" /\ toggleQ = <<>> /\ ~obs /\ ~tocT)
     => \A d \in Faqs : ~open[d]

\* C27: a <details> that is open and carries data-opened-by-search owes its
\* open state to the search, not to a click of the visitor after it was last
\* closed; and the reconciliation of the debounced pass closes no <details>
\* the visitor opened after it was last closed
C27_TagMeansOpenedBySearch ==
  /\ [](\A d \in AllDetails : (tagged[d] /\ open[d]) => d \notin g.userOpen)
  /\ [][(phase = "ready" /\ ~obs /\ timerB /\ ~timerB')
          => \A d \in g.userOpen \cap Present : open[d] => open'[d]]_vars

====
